---- MODULE Spec2Model ----
(***************************************************************************)
(* TaskManagementSystem.py: the SQLite store (tasks, tags, task_history),  *)
(* the TaskManager operations over it and the connection's transaction     *)
(* state.  The three tables are sets of rows; `tasks', `tags', `history'   *)
(* and `seq' are what the open connection reads (committed rows plus the   *)
(* rows of the transaction in progress), `disk' is the last committed      *)
(* snapshot.  Time is an integer clock in hours; it reads later at every   *)
(* call, so MaxTime also bounds the number of calls of a run.  `exported'  *)
(* is the file export_tasks wrote last.                                    *)
(***************************************************************************)
EXTENDS Integers, Sequences, FiniteSets, TLC

VARIABLES tasks, tags, history, seq, disk, now, last, exported

vars == <<tasks, tags, history, seq, disk, now, last, exported>>

(* ------------------------------ bounds --------------------------------- *)
MaxId == 4          \* rows ever inserted into the tasks table
MaxHistory == 2     \* rows ever inserted into task_history
MaxTime == 3        \* the clock value after the last call

(* ------------------------- values and inputs --------------------------- *)
\* Python None / SQL NULL, and the tagged forms of optional columns.
None == <<"none", 0>>
Num(n) == <<"num", n>>
\* a deadline text that datetime.fromisoformat parses, at hour h
Iso(h) == <<"iso", h>>
\* a non-empty deadline text that datetime.fromisoformat rejects ("soon")
BadIso == <<"str", 0>>
\* the empty deadline text
EmptyText == <<"str", -1>>

\* a str argument is a sequence of characters; a tag that is not a str
\* (a JSON number in an import file) is NotStr
Str(s) == <<"str", s>>
NotStr == <<"int", <<>>>>

HoursPerDay == 24

\* the argument lists add_task is called with
AddArgs(title, category, deadline, tagList) ==
    [title |-> title, description |-> "", category |-> category, priority |-> 3,
     deadline |-> deadline, estimated_hours |-> 0, tags |-> tagList]

AddCalls ==
    { AddArgs("t", "general", None, <<>>),
      AddArgs("", "general", None, <<>>),
      AddArgs("t", "work", Iso(HoursPerDay),
              <<Str(<<" ", "a", " ">>), Str(<<"a">>), Str(<<" ">>)>>),
      AddArgs("t", "general", BadIso, <<>>),
      AddArgs("t", "work", Iso(1), <<>>),
      AddArgs("t", "general", EmptyText, <<>>),
      AddArgs("t", "general", None, <<Str(<<"a">>), NotStr, Str(<<"b">>)>>) }

\* the keyword arguments update_task is called with
UpdateCalls ==
    { [status |-> "completed"],
      [status |-> "pending"],
      [title |-> "u", deadline |-> BadIso],
      [id |-> 9, created_at |-> 9, completed_at |-> Num(9)],
      [description |-> "d", category |-> "work", priority |-> 1,
       estimated_hours |-> 8, actual_hours |-> Num(1), created_at |-> 9],
      <<>> }

ActualHours == {None, Num(2)}

\* the arguments suggest_priority is called with: both sides of every
\* threshold of the two rules, and an absent, negative and zero deadline
SuggestHours == {0, 5, 6, 10, 11, 15, 16, 20, 21}
SuggestDays == {None} \cup {Num(d) : d \in {-1, 0, 3, 4, 7, 8, 14, 15}}
SuggestCalls ==
    [category : {"general", "work"}, estimated_hours : SuggestHours,
     deadline_days : SuggestDays]

\* the import files: lists of JSON objects
ImportFiles ==
    { << [title |-> "t", tags |-> <<Str(<<"a">>)>>],
         [description |-> "d"],
         [title |-> "t"] >>,
      << [title |-> "a", deadline |-> Iso(1), tags |-> <<Str(<<"x">>)>>],
         [title |-> "b", category |-> "work", priority |-> 1,
          deadline |-> Iso(-(HoursPerDay + 1)),
          estimated_hours |-> 8, tags |-> <<Str(<<"y">>)>>] >>,
      << [id |-> 1, title |-> "", category |-> "work", status |-> "completed",
          created_at |-> 0, completed_at |-> Num(0), deadline |-> BadIso,
          tags |-> <<NotStr>>] >> }

\* the filters get_tasks is called with; "" stands for None (no filter)
GetCalls ==
    [status : {"", "pending", "completed"}, category : {"", "general", "work"}]

\* a file on disk: its format and, for JSON, the list of objects in it
JsonFile(content) == [format |-> "json", content |-> content]
CsvFile == [format |-> "csv", content |-> <<>>]
NoFile == [format |-> "none", content |-> <<>>]

ExportFormats == {"json", "csv"}

(* ------------------------------- store --------------------------------- *)
\* the Database object as one value: the rows the connection reads, the
\* AUTOINCREMENT counters (sqlite_sequence) and the committed snapshot
Snapshot(st) == [tasks |-> st.tasks, tags |-> st.tags, history |-> st.history,
                 seq |-> st.seq]

EmptyDb == [tasks |-> {}, tags |-> {}, history |-> {},
            seq |-> [tasks |-> 0, tags |-> 0, history |-> 0]]

Db == [tasks |-> tasks, tags |-> tags, history |-> history, seq |-> seq,
       disk |-> disk]

\* Database.commit
commit(st) == [st EXCEPT !.disk = Snapshot(st)]

\* result of one call: the database afterwards, how the call ended
\* ("ok" or the exception raised) and the value returned (0 for None)
Result(st, outcome, ret) == [st |-> st, outcome |-> outcome, ret |-> ret]

\* str.strip(): drop leading and trailing blanks
RECURSIVE lstrip(_)
lstrip(s) == IF s # <<>> /\ Head(s) = " " THEN lstrip(Tail(s)) ELSE s

RECURSIVE rstrip(_)
rstrip(s) == IF s # <<>> /\ s[Len(s)] = " "
             THEN rstrip(SubSeq(s, 1, Len(s) - 1)) ELSE s

strip(s) == rstrip(lstrip(s))

\* INSERT INTO tasks: AUTOINCREMENT id, status and created_at defaults
\* INSERT INTO tasks on a table without AUTOINCREMENT: the new id is one
\* more than the largest id stored
InsertTask_rowid(st, title, description, category, priority, deadline, estimated_hours, t) ==
    LET id == IF st.tasks = {} THEN 1
              ELSE 1 + CHOOSE i \in {r.id : r \in st.tasks} :
                          \A r \in st.tasks : r.id <= i
        row == [id |-> id, title |-> title, description |-> description,
                category |-> category, priority |-> priority,
                status |-> "pending", deadline |-> deadline,
                created_at |-> t, completed_at |-> None,
                estimated_hours |-> estimated_hours, actual_hours |-> None]
    IN [st EXCEPT !.tasks = @ \cup {row}, !.seq.tasks = id]

InsertTask(st, title, description, category, priority, deadline, estimated_hours, t) ==
    LET id == st.seq.tasks + 1
        row == [id |-> id, title |-> title, description |-> description,
                category |-> category, priority |-> priority,
                status |-> "pending", deadline |-> deadline,
                created_at |-> t, completed_at |-> None,
                estimated_hours |-> estimated_hours, actual_hours |-> None]
    IN [st EXCEPT !.tasks = @ \cup {row}, !.seq.tasks = id]

\* INSERT OR IGNORE INTO tags with (task_id, tag) unique
InsertTag_dedup(st, task_id, tag) ==
    LET id == st.seq.tags + 1
    IN IF \E g \in st.tags : g.task_id = task_id /\ g.tag = tag THEN st
       ELSE [st EXCEPT !.tags = @ \cup {[id |-> id, task_id |-> task_id, tag |-> tag]},
                       !.seq.tags = id]

\* INSERT INTO tags (task_id, tag)
InsertTag(st, task_id, tag) ==
    LET id == st.seq.tags + 1
    IN [st EXCEPT !.tags = @ \cup {[id |-> id, task_id |-> task_id, tag |-> tag]},
                  !.seq.tags = id]

\* the tag loop of add_task: inserts tag.strip() for each tag in order and
\* stops at the first tag that has no strip()
RECURSIVE InsertTags(_, _, _)
InsertTags(st, task_id, tagList) ==
    IF tagList = <<>> THEN [st |-> st, raised |-> FALSE]
    ELSE IF Head(tagList)[1] # "str" THEN [st |-> st, raised |-> TRUE]
    ELSE InsertTags(InsertTag(st, task_id, strip(Head(tagList)[2])),
                    task_id, Tail(tagList))

add_task(st, title, description, category, priority, deadline, estimated_hours, tagList, t) ==
    LET st1 == InsertTask(st, title, description, category, priority,
                          deadline, estimated_hours, t)
        task_id == st1.seq.tasks
        tg == InsertTags(st1, task_id, tagList)
    IN IF tg.raised
       THEN Result(tg.st, "AttributeError", 0)
       ELSE Result(commit(tg.st), "ok", task_id)

\* rows of the tasks table with the given id (SELECT ... WHERE id = ?)
RowsWithId(st, task_id) == {r \in st.tasks : r.id = task_id}

\* update_task with id and created_at in its whitelist
allowed_fields_with_id == {"title", "description", "category", "priority",
                           "status", "deadline", "estimated_hours", "actual_hours",
                           "id", "created_at"}

allowed_fields == {"title", "description", "category", "priority",
                   "status", "deadline", "estimated_hours", "actual_hours"}

\* UPDATE tasks SET <the supplied whitelisted fields> WHERE id = ?
UpdateRow(row, kwargs) ==
    [f \in DOMAIN row |->
        IF f \in DOMAIN kwargs /\ f \in allowed_fields THEN kwargs[f] ELSE row[f]]

\* update_task whose UPDATE has no WHERE id = ?
update_task_all_rows(st, task_id, kwargs) ==
    LET updates == DOMAIN kwargs \cap allowed_fields
    IN IF updates # {}
       THEN Result(commit([st EXCEPT !.tasks = {UpdateRow(r, kwargs) : r \in @}]),
                   "ok", 0)
       ELSE Result(st, "ok", 0)

update_task(st, task_id, kwargs) ==
    LET updates == DOMAIN kwargs \cap allowed_fields
    IN IF updates # {}
       THEN Result(commit([st EXCEPT !.tasks =
                       {IF r.id = task_id THEN UpdateRow(r, kwargs) ELSE r : r \in @}]),
                   "ok", 0)
       ELSE Result(st, "ok", 0)

\* `if task[6]': None and the empty text are false
Truthy(v) == v # None /\ v # EmptyText

\* (deadline - created).days clamped at 0
Days_clamped(hours) == IF hours < 0 THEN 0 ELSE hours \div HoursPerDay

\* (deadline - created).days: timedelta.days rounds toward minus infinity
Days(hours) == hours \div HoursPerDay

\* UPDATE tasks SET status = 'completed', completed_at = ?, actual_hours = ?
CompleteRow(row, completed_at, actual_hours) ==
    [row EXCEPT !.status = "completed", !.completed_at = Num(completed_at),
                !.actual_hours = actual_hours]

\* INSERT INTO task_history that leaves estimated_hours at 0
InsertHistory_no_estimate(st, task_id, category, estimated_hours, actual_hours, days_to_deadline, completion_time) ==
    LET id == st.seq.history + 1
        rec == [id |-> id, task_id |-> task_id, category |-> category,
                estimated_hours |-> 0, actual_hours |-> actual_hours,
                days_to_deadline |-> days_to_deadline,
                completion_time_hours |-> completion_time]
    IN [st EXCEPT !.history = @ \cup {rec}, !.seq.history = id]

\* INSERT INTO task_history
InsertHistory(st, task_id, category, estimated_hours, actual_hours, days_to_deadline, completion_time) ==
    LET id == st.seq.history + 1
        rec == [id |-> id, task_id |-> task_id, category |-> category,
                estimated_hours |-> estimated_hours, actual_hours |-> actual_hours,
                days_to_deadline |-> days_to_deadline,
                completion_time_hours |-> completion_time]
    IN [st EXCEPT !.history = @ \cup {rec}, !.seq.history = id]

complete_task(st, task_id, actual_hours, t) ==
    LET found == RowsWithId(st, task_id)
    IN IF found = {} THEN Result(st, "ok", 0)
       ELSE
         LET task == CHOOSE r \in found : TRUE
             completed_at == t
             st1 == [st EXCEPT !.tasks =
                        {IF r.id = task_id
                         THEN CompleteRow(r, completed_at, actual_hours)
                         ELSE r : r \in @}]
             created == task.created_at
             completion_time == completed_at - created
         IN IF Truthy(task.deadline) /\ task.deadline[1] # "iso"
            THEN Result(st1, "ValueError", 0)
            ELSE LET days_to_deadline ==
                         IF Truthy(task.deadline)
                         THEN Num(Days(task.deadline[2] - created))
                         ELSE None
                 IN Result(commit(InsertHistory(st1, task_id, task.category,
                                                task.estimated_hours, actual_hours,
                                                days_to_deadline, completion_time)),
                           "ok", 0)

\* delete_task that also deletes the task's history
delete_task_cascade(st, task_id) ==
    Result(commit([st EXCEPT !.tags = {g \in @ : g.task_id # task_id},
                             !.tasks = {r \in @ : r.id # task_id},
                             !.history = {h \in @ : h.task_id # task_id}]),
           "ok", 0)

\* delete_task without its DELETE FROM tags
delete_task_keep_tags(st, task_id) ==
    Result(commit([st EXCEPT !.tasks = {r \in @ : r.id # task_id}]),
           "ok", 0)

\* delete_task that reports a missing id
delete_task_not_found(st, task_id) ==
    IF RowsWithId(st, task_id) = {} THEN Result(st, "NotFound", 0)
    ELSE Result(commit([st EXCEPT !.tags = {g \in @ : g.task_id # task_id},
                                  !.tasks = {r \in @ : r.id # task_id}]),
                "ok", 0)

\* delete_task whose DELETE FROM tags removes one row only (LIMIT 1)
delete_task_one_tag(st, task_id) ==
    LET own == {g \in st.tags : g.task_id = task_id}
        first == {g \in own : \A g2 \in own : g.id <= g2.id}
    IN Result(commit([st EXCEPT !.tags = @ \ first,
                                !.tasks = {r \in @ : r.id # task_id}]),
              "ok", 0)

delete_task(st, task_id) ==
    Result(commit([st EXCEPT !.tags = {g \in @ : g.task_id # task_id},
                             !.tasks = {r \in @ : r.id # task_id}]),
           "ok", 0)

\* dict.get(key, default)
Get(d, key, default) == IF key \in DOMAIN d THEN d[key] ELSE default

\* the loop of import_tasks: one add_task per entry, stopping at the first
\* entry that raises
RECURSIVE import_entries(_, _, _)
import_entries(st, entries, t) ==
    IF entries = <<>> THEN Result(st, "ok", 0)
    ELSE LET task == Head(entries)
         IN IF "title" \notin DOMAIN task THEN Result(st, "KeyError", 0)
            ELSE LET r == add_task(st, task.title,
                                   Get(task, "description", ""),
                                   Get(task, "category", "general"),
                                   Get(task, "priority", 3),
                                   Get(task, "deadline", None),
                                   Get(task, "estimated_hours", 0),
                                   Get(task, "tags", <<>>), t)
                 IN IF r.outcome # "ok" THEN Result(r.st, r.outcome, 0)
                    ELSE import_entries(r.st, Tail(entries), t)

\* import_tasks that commits nothing unless every entry was added
import_tasks_atomic(st, file, t) ==
    IF file.format # "json" THEN Result(st, "JSONDecodeError", 0)
    ELSE LET r == import_entries(st, file.content, t)
         IN IF r.outcome = "ok" THEN r ELSE Result(st, r.outcome, 0)

\* import_tasks: json.load of the file, then the loop
import_tasks(st, file, t) ==
    IF file.format # "json" THEN Result(st, "JSONDecodeError", 0)
    ELSE import_entries(st, file.content, t)

\* the rows of a set in rowid order
RECURSIVE ById(_)
ById(rows) ==
    IF rows = {} THEN <<>>
    ELSE LET r == CHOOSE x \in rows : \A y \in rows : x.id <= y.id
         IN <<r>> \o ById(rows \ {r})

\* SELECT tag FROM tags WHERE task_id = ?
TagsOf(st, task_id) ==
    LET rows == ById({g \in st.tags : g.task_id = task_id})
    IN [i \in 1..Len(rows) |-> rows[i].tag]

\* how SQLite orders the deadline column: NULL first, then TEXT in
\* byte order ('' < '2026-...' < 'soon')
DeadlineKey(deadline) ==
    IF deadline = None THEN <<0, 0>>
    ELSE IF deadline = EmptyText THEN <<1, 0>>
    ELSE IF deadline[1] = "iso" THEN <<2, deadline[2]>>
    ELSE <<3, 0>>

KeyLeq(k1, k2) == k1[1] < k2[1] \/ (k1[1] = k2[1] /\ k1[2] <= k2[2])

\* ORDER BY priority ASC, deadline ASC
OrderLeq(r1, r2) ==
    \/ r1.priority < r2.priority
    \/ /\ r1.priority = r2.priority
       /\ KeyLeq(DeadlineKey(r1.deadline), DeadlineKey(r2.deadline))

\* the orders in which the SELECT of get_tasks may return the rows: rows
\* with equal keys come in any order
RECURSIVE Ordered(_)
Ordered(rows) ==
    IF rows = {} THEN {<<>>}
    ELSE UNION {{<<r>> \o s : s \in Ordered(rows \ {r})} :
                   r \in {x \in rows : \A y \in rows : OrderLeq(x, y)}}

\* WHERE 1=1 [AND status = ?] [AND category = ?]
Selected(st, status, category) ==
    {r \in st.tasks : /\ (status # "" => r.status = status)
                      /\ (category # "" => r.category = category)}

\* the dict get_tasks builds for a row
TaskDict(st, r) ==
    [id |-> r.id, title |-> r.title, description |-> r.description,
     category |-> r.category, priority |-> r.priority, status |-> r.status,
     deadline |-> r.deadline, created_at |-> r.created_at,
     completed_at |-> r.completed_at, estimated_hours |-> r.estimated_hours,
     actual_hours |-> r.actual_hours, tags |-> TagsOf(st, r.id)]

\* get_tasks, given the order `rows' in which the SELECT returned the rows
get_tasks(st, rows) ==
    Result(st, "ok", [i \in 1..Len(rows) |-> TaskDict(st, rows[i])])

\* json.dump of the list of dicts that leaves the tags out
ToJson_no_tags(task) == [task EXCEPT !.tags = <<>>]

\* json.dump of the list of dicts: a tag (a str) is written as a JSON string
ToJson(task) == [task EXCEPT !.tags = [i \in 1..Len(@) |-> Str(@[i])]]

\* the file export_tasks writes from the list get_tasks returned
export_file(taskList, format) ==
    IF format = "json" THEN JsonFile([i \in 1..Len(taskList) |-> ToJson(taskList[i])])
    ELSE CsvFile

\* Python truth value of an optional number: None and 0 are false
NumTruthy(v) == v # None /\ v[2] # 0

\* _heuristic_priority returning the days left as the priority of an
\* urgent task
heuristic_priority_days_left(estimated_hours, deadline_days) ==
    IF NumTruthy(deadline_days) /\ deadline_days[2] <= 3 THEN deadline_days[2]
    ELSE IF NumTruthy(deadline_days) /\ deadline_days[2] <= 7 THEN 2
    ELSE IF estimated_hours > 15 THEN 2
    ELSE IF estimated_hours > 5 THEN 3
    ELSE 4

\* _heuristic_priority
heuristic_priority(estimated_hours, deadline_days) ==
    IF NumTruthy(deadline_days) /\ deadline_days[2] <= 3 THEN 1
    ELSE IF NumTruthy(deadline_days) /\ deadline_days[2] <= 7 THEN 2
    ELSE IF estimated_hours > 15 THEN 2
    ELSE IF estimated_hours > 5 THEN 3
    ELSE 4

Max(a, b) == IF a >= b THEN a ELSE b
Min(a, b) == IF a <= b THEN a ELSE b

\* suggest_priority whose SELECT has no WHERE category = ?
suggest_priority_any_category(st, category, estimated_hours, deadline_days) ==
    LET hist == st.history
        priority == IF NumTruthy(deadline_days) /\ deadline_days[2] <= 7 THEN 1
                    ELSE IF NumTruthy(deadline_days) /\ deadline_days[2] <= 14 THEN 2
                    ELSE IF estimated_hours > 20 THEN 2
                    ELSE IF estimated_hours > 10 THEN 3
                    ELSE 4
    IN IF hist = {}
       THEN Result(st, "ok", heuristic_priority(estimated_hours, deadline_days))
       ELSE Result(st, "ok", Max(1, Min(5, priority)))

\* suggest_priority: a SELECT and a computation; the two scores it sums
\* over the fetched rows are not used by the result and are left out
suggest_priority(st, category, estimated_hours, deadline_days) ==
    LET hist == {h \in st.history : h.category = category}
        priority == IF NumTruthy(deadline_days) /\ deadline_days[2] <= 7 THEN 1
                    ELSE IF NumTruthy(deadline_days) /\ deadline_days[2] <= 14 THEN 2
                    ELSE IF estimated_hours > 20 THEN 2
                    ELSE IF estimated_hours > 10 THEN 3
                    ELSE 4
    IN IF hist = {}
       THEN Result(st, "ok", heuristic_priority(estimated_hours, deadline_days))
       ELSE Result(st, "ok", Max(1, Min(5, priority)))

\* SELECT key, COUNT(DISTINCT key) ... GROUP BY key
GroupCount_distinct(rows, key) ==
    [k \in {r[key] : r \in rows} |-> Cardinality({r[key] : r \in {x \in rows : x[key] = k}})]

\* SELECT key, COUNT(*) ... GROUP BY key
GroupCount(rows, key) ==
    [k \in {r[key] : r \in rows} |-> Cardinality({r \in rows : r[key] = k})]

RECURSIVE SumCompletion(_)
SumCompletion(rows) ==
    IF rows = {} THEN 0
    ELSE LET h == CHOOSE x \in rows : TRUE
         IN h.completion_time_hours + SumCompletion(rows \ {h})

\* round(n / d, 2) in hundredths, ties to the even hundredth (d > 0)
Round2(n, d) ==
    LET q == (100 * n) \div d
        r == (100 * n) % d
    IN IF 2 * r < d THEN q
       ELSE IF 2 * r > d THEN q + 1
       ELSE IF q % 2 = 0 THEN q ELSE q + 1

\* `deadline < ?' compares TEXT: NULL never matches, the empty text sorts
\* before every timestamp, a text such as "soon" after every timestamp
DeadlineBefore(deadline, t) ==
    IF deadline = None THEN FALSE
    ELSE IF deadline = EmptyText THEN TRUE
    ELSE IF deadline[1] = "iso" THEN deadline[2] < t
    ELSE FALSE

\* get_statistics; avg_completion_hours is in hundredths of an hour
get_statistics(st, t) ==
    LET n == Cardinality(st.history)
        total == SumCompletion(st.history)
        stats == [by_status |-> GroupCount(st.tasks, "status"),
                  by_category |-> GroupCount(st.tasks, "category"),
                  avg_completion_hours |-> IF n > 0 /\ total # 0
                                           THEN Round2(total, n) ELSE 0,
                  overdue |-> Cardinality({r \in st.tasks :
                                  DeadlineBefore(r.deadline, t)
                                  /\ r.status # "completed"})]
    IN Result(st, "ok", stats)

\* what the caller holds before any get_statistics call
NoStats == [by_status |-> <<>>, by_category |-> <<>>,
            avg_completion_hours |-> 0, overdue |-> 0]

(* ------------------------------ actions -------------------------------- *)
\* what a call made at time `now' leaves in the database, and what its
\* caller gets: the outcome, the number returned (ret), the list returned by
\* get_tasks (rows) or the dict returned by get_statistics (stats)
ApplyDb(op, id, r) ==
    /\ now < MaxTime
    /\ now' = now + 1
    /\ tasks' = r.st.tasks
    /\ tags' = r.st.tags
    /\ history' = r.st.history
    /\ seq' = r.st.seq
    /\ disk' = r.st.disk
    /\ last' = [op |-> op, id |-> id, outcome |-> r.outcome,
                ret |-> IF op \in {"get_tasks", "get_statistics"} THEN 0 ELSE r.ret,
                rows |-> IF op = "get_tasks" THEN r.ret ELSE <<>>,
                stats |-> IF op = "get_statistics" THEN r.ret ELSE NoStats]

\* a call that writes no file
Apply(op, id, r) ==
    /\ ApplyDb(op, id, r)
    /\ UNCHANGED exported

\* ids the callers pass: every id handed out so far and one never handed out
TaskIds == 1..(seq.tasks + 1)

\* one call add_task(**a)
AddTaskCall(a) ==
    Apply("add_task", 0,
          add_task(Db, a.title, a.description, a.category, a.priority,
                   a.deadline, a.estimated_hours, a.tags, now))

AddTask ==
    /\ seq.tasks < MaxId
    /\ \E a \in AddCalls : AddTaskCall(a)

\* one call update_task(task_id, **kwargs)
UpdateTaskCall(task_id, kwargs) ==
    Apply("update_task", task_id, update_task(Db, task_id, kwargs))

UpdateTask ==
    \E task_id \in TaskIds, kwargs \in UpdateCalls : UpdateTaskCall(task_id, kwargs)

\* one call complete_task(task_id, actual_hours)
CompleteTaskCall(task_id, actual_hours) ==
    Apply("complete_task", task_id, complete_task(Db, task_id, actual_hours, now))

CompleteTask ==
    /\ seq.history < MaxHistory
    /\ \E task_id \in TaskIds, actual_hours \in ActualHours :
          CompleteTaskCall(task_id, actual_hours)

DeleteTask ==
    \E task_id \in TaskIds :
        Apply("delete_task", task_id, delete_task(Db, task_id))

\* one call import_tasks(file)
ImportCall(file) ==
    /\ seq.tasks + Len(file.content) <= MaxId
    /\ Apply("import_tasks", 0, import_tasks(Db, file, now))

ImportTasks ==
    \/ \E content \in ImportFiles : ImportCall(JsonFile(content))
    \/ exported # NoFile /\ ImportCall(exported)

\* one call get_tasks(status, category)
GetTasksCall(c) ==
    \E rows \in Ordered(Selected(Db, c.status, c.category)) :
        Apply("get_tasks", 0, get_tasks(Db, rows))

GetTasks == \E c \in GetCalls : GetTasksCall(c)

\* export_tasks(filename, format): get_tasks() and the write of the file
ExportTasks ==
    \E format \in ExportFormats : \E rows \in Ordered(Selected(Db, "", "")) :
        /\ ApplyDb("export_tasks", 0, Result(Db, "ok", 0))
        /\ exported' = export_file(get_tasks(Db, rows).ret, format)

SuggestCall(c) ==
    Apply("suggest_priority", 0,
          suggest_priority(Db, c.category, c.estimated_hours, c.deadline_days))

SuggestPriority ==
    \E c \in SuggestCalls : SuggestCall(c)

GetStatistics ==
    Apply("get_statistics", 0, get_statistics(Db, now))

Init ==
    /\ tasks = {}
    /\ tags = {}
    /\ history = {}
    /\ seq = EmptyDb.seq
    /\ disk = EmptyDb
    /\ now = 0
    /\ last = [op |-> "init", id |-> 0, outcome |-> "ok", ret |-> 0,
               rows |-> <<>>, stats |-> NoStats]
    /\ exported = NoFile

Next ==
    \/ AddTask
    \/ UpdateTask
    \/ CompleteTask
    \/ DeleteTask
    \/ ImportTasks
    \/ SuggestPriority
    \/ GetStatistics
    \/ GetTasks
    \/ ExportTasks

Spec == Init /\ [][Next]_vars

(* ------------------------------ properties ----------------------------- *)
Ids(rows) == {r.id : r \in rows}

HistoryOf(rows, task_id) == {h \in rows : h.task_id = task_id}

\* C1: every stored task has completed_at set if and only if its status is
\* 'completed'.
C1_CompletedAtIffCompleted ==
    \A r \in tasks : (r.completed_at # None) <=> (r.status = "completed")

\* C2: once a task's completed_at is set, no later operation on that task
\* changes or clears it; it only disappears with the task.
C2_CompletedAtSetOnce ==
    [][\A r \in tasks : \A r2 \in tasks' :
          (r.completed_at # None /\ r2.id = r.id)
              => r2.completed_at = r.completed_at]_vars

\* C3: history records are append-only and immutable: every record of one
\* state is present with the same field values in the next state.
C3_HistoryAppendOnly ==
    [][history \subseteq history']_vars

\* C3 witness: a record outlives the deletion of its task.
C3_Witness ==
    /\ last.op = "delete_task"
    /\ HistoryOf(history, last.id) # {}
    /\ last.id \notin Ids(tasks)

\* C4: every complete_task call on an existing task appends exactly one
\* history record for that task id, whether or not it was completed before.
C4_OneRecordPerCompleteCall ==
    [][(last'.op = "complete_task" /\ last'.id \in Ids(tasks))
          => /\ Cardinality(history' \ history) = 1
             /\ history \subseteq history'
             /\ \A h \in history' \ history : h.task_id = last'.id]_vars

\* C5: delete_task(id) on an existing task removes the task and all its tag
\* rows, leaves every history record and every other task and tag as they
\* were, and the id never comes back.
C5_DeleteFrame ==
    [][/\ (last'.op = "delete_task" /\ last'.id \in Ids(tasks))
            => /\ tasks' = {r \in tasks : r.id # last'.id}
               /\ tags' = {g \in tags : g.task_id # last'.id}
               /\ history' = history
               /\ last'.outcome = "ok"
       /\ \A id \in 1..seq.tasks : id \notin Ids(tasks) => id \notin Ids(tasks')]_vars

\* C5 witness: a task with tags and history was deleted while another task
\* with a tag is stored.
C5_Witness ==
    /\ last.op = "delete_task"
    /\ last.id \in 1..seq.tasks
    /\ last.id \notin Ids(tasks)
    /\ \A g \in tags : g.task_id # last.id
    /\ \E g \in tags : g.task_id \in Ids(tasks)
    /\ seq.tags > Cardinality(tags)
    /\ HistoryOf(history, last.id) # {}

\* C6: every task whose status is 'completed' has at least one history
\* record referencing its id.
C6_CompletedHasHistory ==
    \A r \in tasks : r.status = "completed" => HistoryOf(history, r.id) # {}

\* C7: a multi-row mutation (add_task, complete_task, delete_task) that
\* fails after its first write leaves the store as before the call, and
\* rows a call left uncommitted are never committed by a later call.
C7_FailedMutationLeavesStore ==
    [][/\ (last'.op \in {"add_task", "complete_task", "delete_task"}
           /\ last'.outcome # "ok")
            => UNCHANGED <<tasks, tags, history>>
       /\ (tasks \ disk.tasks) \cap disk'.tasks = {}
       /\ (tags \ disk.tags) \cap disk'.tags = {}]_vars

\* C8: add_task with an empty title fails with ValidationError and writes
\* nothing: no task row, no tag row.
C8_EmptyTitleRejected ==
    [][\A a \in AddCalls : (a.title = "" /\ AddTaskCall(a))
          => /\ last'.outcome = "ValidationError"
             /\ UNCHANGED <<tasks, tags, history>>]_vars

\* C9: update_task and complete_task with an id that is not stored fail with
\* NotFoundError and leave tasks, tags and history unchanged.
C9_MissingIdNotFound ==
    [][(last'.op \in {"update_task", "complete_task"} /\ last'.id \notin Ids(tasks))
          => /\ last'.outcome = "NotFoundError"
             /\ UNCHANGED <<tasks, tags, history>>]_vars

\* C10: task ids are unique and immutable: no two stored tasks share an id,
\* add_task returns an id no stored task held, ids appear only by creation
\* and disappear only by deletion, and created_at of a stored task never
\* changes.
C10_IdsUniqueImmutable ==
    /\ [](\A r1 \in tasks : \A r2 \in tasks : r1.id = r2.id => r1 = r2)
    /\ [][/\ (last'.op = "add_task" /\ last'.outcome = "ok")
               => (last'.ret \notin Ids(tasks) /\ last'.ret \in Ids(tasks'))
          /\ \A r2 \in tasks' : r2.id \notin Ids(tasks)
               => last'.op \in {"add_task", "import_tasks"}
          /\ \A r \in tasks : r.id \notin Ids(tasks')
               => last'.op = "delete_task"
          /\ \A r \in tasks : \A r2 \in tasks' :
               r2.id = r.id => r2.created_at = r.created_at]_vars

\* C10 witness: two tasks created at different times are stored, and an
\* update of one of them has run.
C10_Witness ==
    /\ last.op = "update_task"
    /\ last.id \in Ids(tasks)
    /\ \E r1 \in tasks : \E r2 \in tasks :
          r1.id # r2.id /\ r1.created_at # r2.created_at

\* C11: get_tasks returns the tasks by priority ascending and, among tasks
\* of equal priority, by deadline ascending with every task that has no
\* deadline after all the tasks that have one.
C11_NoDeadlineLast ==
    last.op = "get_tasks" =>
        \A i \in DOMAIN last.rows : \A j \in DOMAIN last.rows :
            i < j =>
               /\ last.rows[i].priority <= last.rows[j].priority
               /\ last.rows[i].priority = last.rows[j].priority =>
                    /\ (last.rows[i].deadline[1] = "iso" /\ last.rows[j].deadline[1] = "iso")
                          => last.rows[i].deadline[2] <= last.rows[j].deadline[2]
                    /\ ~Truthy(last.rows[i].deadline) => ~Truthy(last.rows[j].deadline)

\* the fields the claim lets update_task write
C12_Whitelist == {"title", "description", "category", "priority", "status",
                  "deadline", "estimated_hours", "actual_hours"}

\* C12: update_task on an existing task sets exactly the supplied
\* whitelisted fields to the supplied values; every other supplied name is
\* ignored, and the unsupplied fields, the other tasks, the tags and the
\* history are unchanged.
C12_UpdateFrame ==
    [][\A task_id \in TaskIds : \A kwargs \in UpdateCalls :
          (/\ last'.op = "update_task" /\ last'.id = task_id
           /\ task_id \in Ids(tasks) /\ UpdateTaskCall(task_id, kwargs))
             => /\ last'.outcome = "ok"
                /\ tags' = tags
                /\ history' = history
                /\ {r \in tasks' : r.id # task_id} = {r \in tasks : r.id # task_id}
                /\ \A r \in tasks : r.id = task_id =>
                      \E r2 \in tasks' :
                         /\ r2.id = task_id
                         /\ \A f \in DOMAIN r :
                               r2[f] = IF f \in C12_Whitelist \cap DOMAIN kwargs
                                       THEN kwargs[f] ELSE r[f]]_vars

\* C12 witness: an update that passed whitelisted and other names has
\* changed one of two stored tasks.
C12_Witness ==
    /\ last.op = "update_task"
    /\ \E r \in tasks : /\ r.id = last.id
                        /\ r.description = "d"
                        /\ r.priority = 1
                        /\ r.created_at # 9
    /\ \E r \in tasks : r.id # last.id /\ r.description = ""

\* C13: a complete_task call that follows a complete_task call on the same
\* existing task leaves the task's status, completed_at and actual_hours as
\* the first call set them.
C13_CompleteIdempotentOnRow ==
    [][(/\ last.op = "complete_task" /\ last.outcome = "ok"
        /\ last'.op = "complete_task" /\ last'.id = last.id
        /\ last.id \in Ids(tasks))
          => \A r \in tasks : \A r2 \in tasks' :
                (r.id = last.id /\ r2.id = last.id)
                   => /\ r2.status = r.status
                      /\ r2.completed_at = r.completed_at
                      /\ r2.actual_hours = r.actual_hours]_vars

\* the history rows suggest_priority's SELECT fetches for a category
CategoryHistory(category) == {h \in history : h.category = category}

\* C14: suggest_priority returns an integer in [1,5] for every category,
\* every estimate >= 0 and every deadline_days (absent, zero, negative or
\* positive), in every store state.
C14_SuggestInRange ==
    last.op = "suggest_priority" => last.outcome = "ok" /\ last.ret \in 1..5

\* a suggestion of 1 made while history rows exist
C14_Witness ==
    last.op = "suggest_priority" /\ last.ret = 1 /\ history # {}

\* C15: with no history row of the category, suggest_priority returns 1 if
\* deadline_days is present and <= 3 (0 and negative values included), else
\* 2 if it is present and <= 7, else 2 if estimated_hours > 15, else 3 if
\* estimated_hours > 5, else 4.
C15_HeuristicRule ==
    [][\A c \in SuggestCalls :
          (SuggestCall(c) /\ CategoryHistory(c.category) = {})
             => last'.ret =
                  IF c.deadline_days # None /\ c.deadline_days[2] <= 3 THEN 1
                  ELSE IF c.deadline_days # None /\ c.deadline_days[2] <= 7 THEN 2
                  ELSE IF c.estimated_hours > 15 THEN 2
                  ELSE IF c.estimated_hours > 5 THEN 3
                  ELSE 4]_vars

\* C16: with at least one history row of the category, suggest_priority
\* returns 1 if deadline_days is present and <= 7 (0 and negative values
\* included), else 2 if it is present and <= 14, else 2 if estimated_hours
\* > 20, else 3 if estimated_hours > 10, else 4, whatever the rows hold.
C16_PrimaryRule ==
    [][\A c \in SuggestCalls :
          (SuggestCall(c) /\ CategoryHistory(c.category) # {})
             => last'.ret =
                  IF c.deadline_days # None /\ c.deadline_days[2] <= 7 THEN 1
                  ELSE IF c.deadline_days # None /\ c.deadline_days[2] <= 14 THEN 2
                  ELSE IF c.estimated_hours > 20 THEN 2
                  ELSE IF c.estimated_hours > 10 THEN 3
                  ELSE 4]_vars

\* the store holding nothing but the history rows of a category
OnlyHistoryOf(category) == [EmptyDb EXCEPT !.history = CategoryHistory(category)]

\* C17: suggest_priority is read-only and deterministic: a call leaves
\* tasks, tags and history unchanged, and for every argument triple the
\* result on the store is the result on a store that holds nothing but the
\* category's history rows, so two calls with equal arguments against equal
\* history agree whatever ran in between.
C17_SuggestReadOnly ==
    /\ [](last.op = "suggest_priority" =>
            \A c \in SuggestCalls :
                suggest_priority(Db, c.category, c.estimated_hours,
                                 c.deadline_days).ret
                  = suggest_priority(OnlyHistoryOf(c.category), c.category,
                                     c.estimated_hours, c.deadline_days).ret)
    /\ [][last'.op = "suggest_priority"
            => /\ tasks' = tasks /\ tags' = tags /\ history' = history
               /\ disk' = disk /\ seq' = seq]_vars

\* a suggestion of 4 made while the store holds tasks, tags and history
\* rows of another category only
C17_Witness ==
    /\ last.op = "suggest_priority" /\ last.ret = 4
    /\ tasks # {} /\ tags # {} /\ history # {}
    /\ \E cat \in {"general", "work"} : CategoryHistory(cat) = {}

\* the sum of the counts of a breakdown
RECURSIVE SumCounts(_)
SumCounts(f) ==
    IF DOMAIN f = {} THEN 0
    ELSE LET k == CHOOSE x \in DOMAIN f : TRUE
         IN f[k] + SumCounts([x \in DOMAIN f \ {k} |-> f[x]])

\* C18: the overdue count of get_statistics is the number of stored tasks
\* that have a deadline strictly before the time of the call and whose
\* status is not 'completed'; tasks without a deadline and tasks whose
\* deadline equals or follows that time are not counted.  (The call was
\* made at now - 1 and left the tasks as they were.)
C18_OverdueCount ==
    last.op = "get_statistics" =>
        last.stats.overdue =
            Cardinality({r \in tasks : /\ Truthy(r.deadline)
                                       /\ r.deadline[1] = "iso"
                                       /\ r.deadline[2] < now - 1
                                       /\ r.status # "completed"})

\* C19: by_status and by_category of get_statistics map each status and
\* category to the number of stored tasks having it (deleted tasks are not
\* counted, both breakdowns sum to the number of stored tasks); on an empty
\* store there are no counts, overdue is 0 and avg_completion_hours is 0.
C19_Breakdowns ==
    last.op = "get_statistics" =>
        /\ DOMAIN last.stats.by_status = {r.status : r \in tasks}
        /\ \A k \in DOMAIN last.stats.by_status :
               last.stats.by_status[k] = Cardinality({r \in tasks : r.status = k})
        /\ DOMAIN last.stats.by_category = {r.category : r \in tasks}
        /\ \A k \in DOMAIN last.stats.by_category :
               last.stats.by_category[k] = Cardinality({r \in tasks : r.category = k})
        /\ SumCounts(last.stats.by_status) = Cardinality(tasks)
        /\ SumCounts(last.stats.by_category) = Cardinality(tasks)
        /\ tasks = {} => /\ DOMAIN last.stats.by_status = {}
                         /\ DOMAIN last.stats.by_category = {}
                         /\ last.stats.overdue = 0
        /\ (tasks = {} /\ history = {}) => last.stats.avg_completion_hours = 0

\* C19 witness: statistics taken after one of two inserted tasks was
\* deleted; the breakdowns count the remaining task only.
C19_Witness ==
    /\ last.op = "get_statistics"
    /\ seq.tasks = 2
    /\ Cardinality(tasks) = 1
    /\ SumCounts(last.stats.by_status) = 1
    /\ SumCounts(last.stats.by_category) = 1

\* statistics taken on a store that holds nothing
C19_WitnessEmpty ==
    /\ last.op = "get_statistics"
    /\ tasks = {} /\ history = {}
    /\ last.stats.avg_completion_hours = 0

\* the fields of a task that an export followed by an import carries over
C20_Carried == {"title", "description", "category", "priority", "deadline",
                "estimated_hours"}

\* C20: export_tasks to JSON followed by import_tasks of the exported file
\* creates, for every exported task, one new task whose title, description,
\* category, priority, deadline, estimated_hours and tags equal the
\* original's, whose id is new and distinct from every existing id, and
\* whose created_at is the import time; the original tasks are unchanged.
C20_RoundTrip ==
    [][(/\ last.op = "export_tasks" /\ exported.format = "json"
        /\ last'.op = "import_tasks" /\ ImportCall(exported))
          => /\ last'.outcome = "ok"
             /\ tasks \subseteq tasks' /\ tags \subseteq tags'
             /\ history' = history
             /\ Ids(tasks' \ tasks) \cap (1..seq.tasks) = {}
             /\ Cardinality(tasks' \ tasks) = Cardinality(tasks)
             /\ \E f \in [Ids(tasks) -> Ids(tasks' \ tasks)] :
                   /\ \A i \in Ids(tasks) : \A j \in Ids(tasks) :
                         i # j => f[i] # f[j]
                   /\ \A r \in tasks : \E r2 \in tasks' \ tasks :
                         /\ r2.id = f[r.id]
                         /\ \A k \in C20_Carried : r2[k] = r[k]
                         /\ r2.created_at = now
                         /\ TagsOf([tags |-> tags'], r2.id)
                               = TagsOf([tags |-> tags], r.id)]_vars

\* C20 witness: two tasks with a tag each were exported and imported back;
\* the store holds four tasks and four tags.
C20_Witness ==
    /\ last.op = "import_tasks" /\ last.outcome = "ok"
    /\ exported.format = "json" /\ Len(exported.content) = 2
    /\ Cardinality(tasks) = 4 /\ Cardinality(tags) = 4
    /\ \E r \in tasks : \E r2 \in tasks :
          /\ r.id < r2.id /\ r2.created_at > r.created_at
          /\ r.title = r2.title /\ r.deadline = Iso(1) /\ r2.deadline = Iso(1)

\* the fields add_task takes from its caller
C21_Given == {"title", "description", "category", "priority", "deadline",
              "estimated_hours"}

\* C21: for valid inputs (every tag a string), add_task followed by
\* get_tasks filtered with the task's status ('pending') and/or its category
\* returns the created task once, carrying the fields given to add_task and
\* a tags list equal to the input labels each trimmed of surrounding
\* whitespace, duplicates and empty-after-trim labels kept.  First conjunct:
\* what add_task stores for its arguments; second: what the get_tasks call
\* that follows returns for the stored task.
C21_AddThenGet ==
    [][/\ last'.op = "add_task" =>
             \A a \in AddCalls :
                (AddTaskCall(a) /\ \A i \in DOMAIN a.tags : a.tags[i][1] = "str")
                   => /\ last'.outcome = "ok"
                      /\ last'.ret \notin Ids(tasks)
                      /\ \E r \in tasks' :
                            /\ r.id = last'.ret /\ r.status = "pending"
                            /\ \A k \in C21_Given : r[k] = a[k]
                      /\ TagsOf([tags |-> tags'], last'.ret)
                            = [i \in DOMAIN a.tags |-> strip(a.tags[i][2])]
       /\ (last.op = "add_task" /\ last.outcome = "ok" /\ last'.op = "get_tasks") =>
             \A c \in GetCalls : \A r \in tasks :
                (/\ r.id = last.ret
                 /\ c.status \in {"", r.status} /\ c.category \in {"", r.category}
                 /\ GetTasksCall(c))
                   => /\ Cardinality({i \in DOMAIN last'.rows :
                                         last'.rows[i].id = r.id}) = 1
                      /\ \A i \in DOMAIN last'.rows :
                            last'.rows[i].id = r.id =>
                               /\ \A k \in C21_Given : last'.rows[i][k] = r[k]
                               /\ last'.rows[i].tags = TagsOf([tags |-> tags], r.id)]_vars

\* C21 witness: a get_tasks call filtered by category right after an
\* add_task with the labels " a ", "a", " " returned that task alone, with
\* the tags "a", "a", "", out of two stored tasks.
C21_Witness ==
    /\ last.op = "get_tasks"
    /\ Cardinality(tasks) = 2
    /\ Len(last.rows) = 1
    /\ last.rows[1].id = 2 /\ last.rows[1].created_at = 1
    /\ last.rows[1].category = "work"
    /\ last.rows[1].tags = << <<"a">>, <<"a">>, <<>> >>
    /\ now = 3

\* C22: in every reachable state every stored task has a non-empty title, a
\* priority in 1..5 and a status in {pending, in_progress, completed},
\* whatever arguments were passed to add_task, update_task or import_tasks.
C22_FieldDomains ==
    \A r \in tasks :
        /\ r.title # ""
        /\ r.priority \in 1..5
        /\ r.status \in {"pending", "in_progress", "completed"}

\* C23: complete_task(id, h) on an existing task sets that task's status to
\* 'completed', completed_at to the time of the call and actual_hours to h,
\* and changes nothing else: the task's other fields, its tags, every other
\* task and every pre-existing history record are unchanged; when h is
\* omitted the task's actual_hours is left as it was.
C23_CompleteFrame ==
    [][last'.op = "complete_task" =>
          \A task_id \in TaskIds : \A h \in ActualHours :
             (/\ last'.id = task_id /\ task_id \in Ids(tasks)
              /\ CompleteTaskCall(task_id, h))
                => /\ tags' = tags
                   /\ history \subseteq history'
                   /\ {r \in tasks' : r.id # task_id} = {r \in tasks : r.id # task_id}
                   /\ \A r \in tasks : r.id = task_id =>
                         tasks' \ tasks \subseteq
                            {[r EXCEPT !.status = "completed",
                                       !.completed_at = Num(now),
                                       !.actual_hours = IF h = None THEN @ ELSE h]}]_vars

\* the whole days in a span of hours: the d with d days <= hours < d + 1 days
C24_WholeDays(hours) ==
    CHOOSE d \in -(MaxTime + 3)..(MaxTime + 3) :
        d * HoursPerDay <= hours /\ hours < (d + 1) * HoursPerDay

\* C24: the history record appended by complete_task has days_to_deadline
\* equal to the whole-day difference between the task's deadline and its
\* created_at (negative, unclamped, when the deadline precedes creation) and
\* has it absent exactly when the task has no deadline at completion time.
C24_DaysToDeadline ==
    [][last'.op = "complete_task" =>
          \A h \in history' \ history : \E r \in tasks :
             /\ r.id = last'.id /\ h.task_id = r.id
             /\ h.days_to_deadline =
                   IF Truthy(r.deadline)
                   THEN Num(C24_WholeDays(r.deadline[2] - r.created_at))
                   ELSE None]_vars

\* C24 witness: a task created at time 0 with a deadline 25 hours earlier
\* was completed; its record has days_to_deadline -2.
C24_Witness ==
    /\ last.op = "complete_task"
    /\ \E h \in history :
          /\ h.task_id = last.id /\ h.days_to_deadline = Num(-2)
          /\ \E r \in tasks : r.id = h.task_id /\ r.created_at = 0
                                /\ r.deadline = Iso(-(HoursPerDay + 1))

\* C25: the history record appended by complete_task(id, h) carries the
\* task's category and estimated_hours as stored at the moment of the call
\* (reflecting every earlier update_task) and actual_hours equal to h; a
\* later update_task or delete_task does not alter the record's category or
\* estimated_hours.
C25_HistorySnapshot ==
    [][/\ last'.op = "complete_task" =>
             \A task_id \in TaskIds : \A h \in ActualHours :
                (last'.id = task_id /\ CompleteTaskCall(task_id, h))
                   => \A rec \in history' \ history : \E r \in tasks :
                         /\ r.id = task_id /\ rec.task_id = task_id
                         /\ rec.category = r.category
                         /\ rec.estimated_hours = r.estimated_hours
                         /\ rec.actual_hours = h
       /\ last'.op \in {"update_task", "delete_task"} =>
             \A rec \in history : \E rec2 \in history' :
                /\ rec2.id = rec.id /\ rec2.task_id = rec.task_id
                /\ rec2.category = rec.category
                /\ rec2.estimated_hours = rec.estimated_hours]_vars

\* C25 witness: a task updated to category 'work' and 8 estimated hours was
\* completed with 2 actual hours; the record carries work, 8 and 2.
C25_Witness ==
    /\ last.op = "complete_task"
    /\ \E rec \in history :
          /\ rec.task_id = last.id /\ rec.category = "work"
          /\ rec.estimated_hours = 8 /\ rec.actual_hours = Num(2)
          /\ \E r \in tasks : r.id = rec.task_id /\ r.description = "d"

\* an update_task after the completion changed the task's category and
\* estimated_hours; the record keeps the values of the completion
C25_WitnessLaterUpdate ==
    /\ last.op = "update_task"
    /\ \E rec \in history : \E r \in tasks :
          /\ r.id = rec.task_id /\ r.id = last.id
          /\ rec.category = "general" /\ r.category = "work"
          /\ rec.estimated_hours = 0 /\ r.estimated_hours = 8

\* C26: delete_task called with an id that is not in the store raises no
\* error and leaves tasks, tags and history unchanged.
C26_DeleteMissing ==
    [][(last'.op = "delete_task" /\ last'.id \notin Ids(tasks))
          => /\ last'.outcome = "ok"
             /\ tasks' = tasks /\ tags' = tags /\ history' = history]_vars

\* C26 witness: delete_task was called with an id never handed out while
\* the store holds a task, a tag and a history record.
C26_Witness ==
    /\ last.op = "delete_task" /\ last.outcome = "ok"
    /\ last.id > seq.tasks
    /\ tasks # {} /\ tags # {} /\ history # {}

\* C27: no orphan tags: in every state reachable by add_task, update_task,
\* complete_task, delete_task and import_tasks, every tag row's task_id is
\* the id of a stored task.
C27_NoOrphanTags ==
    \A g \in tags : g.task_id \in Ids(tasks)

\* C27 witness: a task with three tags was deleted while another task keeps
\* its tag.
C27_Witness ==
    /\ last.op = "delete_task"
    /\ last.id \in 1..seq.tasks /\ last.id \notin Ids(tasks)
    /\ seq.tags >= 4
    /\ Cardinality(tags) = 1

\* C28: task ids are never reused: every id add_task returns (and every id
\* import_tasks assigns) is strictly greater than every id assigned before,
\* ids of deleted tasks included, so no history record or tag left in the
\* store is attached to a task created later.  seq.tasks never decreases and
\* bounds every id in the store.
C28_IdsNeverReused ==
    [][/\ seq.tasks' >= seq.tasks
       /\ Ids(tasks) \subseteq 1..seq.tasks
       /\ \A r \in tasks' :
             r.id \notin Ids(tasks) =>
                /\ r.id > seq.tasks
                /\ \A h \in history : h.task_id # r.id
                /\ \A g \in tags : g.task_id # r.id
       /\ (last'.op = "add_task" /\ last'.outcome = "ok")
             => last'.ret > seq.tasks /\ last'.ret \in Ids(tasks')]_vars

\* C28 witness: add_task returned id 2 after task 1 was deleted.
C28_Witness ==
    /\ last.op = "add_task" /\ last.outcome = "ok" /\ last.ret = 2
    /\ Ids(tasks) = {2}
    /\ now = 3

\* an import entry that makes import_tasks fail: no title, or a tag that is
\* not a string
C29_Fails(entry) ==
    \/ "title" \notin DOMAIN entry
    \/ "tags" \in DOMAIN entry /\ \E i \in DOMAIN entry.tags : entry.tags[i][1] # "str"

\* C29: import_tasks commits task by task: if the k-th entry of the file
\* makes the import fail, the first k-1 entries have been created with
\* their tags and are committed, and no entry after the k-th is created.
C29_ImportPartial ==
    [][last'.op = "import_tasks" =>
          \A content \in ImportFiles : \A k \in DOMAIN content :
             (/\ ImportCall(JsonFile(content))
              /\ C29_Fails(content[k])
              /\ \A i \in 1..(k - 1) : ~C29_Fails(content[i]))
                => /\ last'.outcome # "ok"
                   /\ \A i \in 1..(k - 1) :
                         \E r \in tasks' \cap disk'.tasks :
                            /\ r.id = seq.tasks + i
                            /\ r.title = content[i].title
                            /\ r.created_at = now
                            /\ TagsOf([tags |-> tags' \cap disk'.tags], r.id)
                                  = [j \in DOMAIN Get(content[i], "tags", <<>>) |->
                                        strip(content[i].tags[j][2])]
                   /\ \A r \in tasks' : r.id <= seq.tasks + k
                   /\ tasks \subseteq tasks']_vars

\* C29 witness: the import of a file whose second of three entries has no
\* title failed; the first entry is stored and committed with its tag, the
\* third was not created.
C29_Witness ==
    /\ last.op = "import_tasks" /\ last.outcome = "KeyError"
    /\ seq.tasks = 1
    /\ \E r \in tasks \cap disk.tasks : r.id = 1 /\ r.title = "t"
    /\ \E g \in tags \cap disk.tags : g.task_id = 1 /\ g.tag = <<"a">>

====
